---- MODULE Spec2Model ----
(***************************************************************************)
(* snapcraft/yaml.py: Config.__init__ loads the declared parts, auto-loads *)
(* the parts named by "requires", attaches the dependency edges, sorts the *)
(* parts; build_env_for_part composes the environment of a part's          *)
(* dependencies.                                                           *)
(*                                                                         *)
(* Part names are the numbers 1..NumNames.  A Part object is an element of *)
(* heap, and a reference to it is its position in heap (the order in which *)
(* the objects were created), so that two objects of one name stay apart.  *)
(* The entries of data["parts"] and the configuration the plugin loader    *)
(* gives a part are inputs; they are drawn when the code reads them.  The  *)
(* declared names are numbered in the order the loop at line 79 visits     *)
(* them.                                                                   *)
(***************************************************************************)
EXTENDS Naturals, Sequences, FiniteSets, TLC

\* ------------------------------------------------------------ bounds
NumNames == 4          \* part names 1..NumNames
MaxRequires == 2       \* longest 'requires' list of a plugin configuration
MaxAfter == 1          \* longest 'after' list of a declared part
MaxEdges == 4          \* 'requires' entries of an input without 'after' lists
MaxKeys == 2           \* property keys other than 'after' in the whole input

Names == 1..NumNames

VARIABLES
    pc,             \* position in Config.__init__ / _sort_parts
    data_parts,     \* self.data["parts"] as loaded from the file, entry i of name i
    heap,           \* the Part objects created so far
    all_parts,      \* self.all_parts: references into heap
    afterRequests,  \* afterRequests: name -> 'after' list
    newParts,       \* the worklist of the auto-load loop
    sorted_parts,   \* sorted_parts of _sort_parts
    iters,          \* outer iterations of _sort_parts started so far
    env,            \* result of the last build_env_for_part call
    envPart         \* its argument (0: not called yet)

vars == <<pc, data_parts, heap, all_parts, afterRequests, newParts,
          sorted_parts, iters, env, envPart>>

\* ------------------------------------------------------------ helpers
SeqsUpTo(S, n) == UNION { [1..k -> S] : k \in 0..n }

Range(s) == { s[i] : i \in 1..Len(s) }

RECURSIVE SumOver(_, _)
SumOver(f, S) ==
    IF S = {} THEN 0
    ELSE LET x == CHOOSE y \in S : TRUE IN f[x] + SumOver(f, S \ {x})

\* mutant: the list is cut after the element instead of around it
RemoveThrough(s, x) ==
    LET i == CHOOSE j \in 1..Len(s) : s[j] = x /\ \A k \in 1..(j - 1) : s[k] # x
    IN  SubSeq(s, i + 1, Len(s))

\* list.remove(x): drops the first element equal to x
Remove(s, x) ==
    LET i == CHOOSE j \in 1..Len(s) : s[j] = x /\ \A k \in 1..(j - 1) : s[k] # x
    IN  SubSeq(s, 1, i - 1) \o SubSeq(s, i + 1, Len(s))

\* dict.get(key, default)
Get(d, key, default) == IF key \in DOMAIN d THEN d[key] ELSE default

\* ------------------------------------------------------------ inputs
ReqLists == SeqsUpTo(Names, MaxRequires)
AfterLists == SeqsUpTo(Names, MaxAfter) \ {<<>>}

\* One entry of data["parts"]: a mapping with any of the keys plugin, after,
\* requires, source. pl, af, rq, so are <<>> (key absent) or <<value>>.
MkEntry(pl, af, rq, so) ==
    LET K == (IF pl = <<>> THEN {} ELSE {"plugin"})
             \cup (IF af = <<>> THEN {} ELSE {"after"})
             \cup (IF rq = <<>> THEN {} ELSE {"requires"})
             \cup (IF so = <<>> THEN {} ELSE {"source"})
    IN  [k \in K |-> CASE k = "plugin" -> pl[1]
                       [] k = "after" -> af[1]
                       [] k = "requires" -> rq[1]
                       [] k = "source" -> so[1]]

Opt(S) == {<<>>} \cup { <<v>> : v \in S }

\* the value of a 'plugin' key: a plugin that is not the part's name
OtherPlugin == NumNames + 1

Entries ==
    { MkEntry(pl, af, rq, so) :
        pl \in Opt({OtherPlugin}), af \in Opt(AfterLists),
        rq \in Opt({<<1>>}), so \in Opt({"lp:src"}) }

EntryKeys(e) == Cardinality(DOMAIN e \ {"after"})
EntryAfter(e) == Len(Get(e, "after", <<>>))

\* The inputs the model draws: graphs of up to MaxEdges 'requires' entries;
\* with 'after' lists, one entry fewer in all; with other property keys, up
\* to MaxKeys of them and one list entry.
InputOK(nReq, nAfter, nKeys) ==
    \/ nKeys = 0 /\ nAfter = 0 /\ nReq <= MaxEdges
    \/ nKeys = 0 /\ nReq + nAfter <= MaxEdges - 1
    \/ nKeys <= MaxKeys /\ nReq + nAfter <= 1

\* how many more 'requires' entries the input may still get
Room(nReq, nAfter, nKeys) ==
    CHOOSE r \in 0..(MaxEdges + 1) :
        /\ \A k \in 0..r : InputOK(nReq + k, nAfter, nKeys)
        /\ ~InputOK(nReq + r + 1, nAfter, nKeys)

NReq == SumOver([i \in 1..Len(heap) |-> Len(heap[i].config.requires)], 1..Len(heap))
NAfter == SumOver([i \in 1..Len(data_parts) |-> EntryAfter(data_parts[i])],
                  1..Len(data_parts))
NKeys == SumOver([i \in 1..Len(data_parts) |-> EntryKeys(data_parts[i])],
                 1..Len(data_parts))

\* ------------------------------------------------------------ Part
\* snapcraft.plugin.load_plugin(part_name, plugin_name, properties): a Part
\* with the configuration the loader found for it and no deps yet.
NewPart(part_name, plugin_name, properties, requires) ==
    [name |-> part_name, plugin |-> plugin_name, properties |-> properties,
     config |-> [requires |-> requires], deps |-> <<>>]

\* Part.names()
names(part) == <<part.name>>

\* Config.load_plugin: append the new Part to all_parts
load_plugin(st, part_name, plugin_name, properties, requires) ==
    [st EXCEPT !.heap = Append(@, NewPart(part_name, plugin_name, properties, requires)),
               !.all_parts = Append(@, Len(st.heap) + 1)]

\* mutant: the requires key is deleted with the other two
StripKeysAndRequires(properties) ==
    [k \in DOMAIN properties \ {"plugin", "after", "requires"} |-> properties[k]]

\* lines 82-88: the properties left for the loader
StripKeys(properties) ==
    [k \in DOMAIN properties \ {"plugin", "after"} |-> properties[k]]

\* mutant: only the first part is looked at
AlreadyPresentFirstOnly(hp, parts, requiredPart) ==
    \E i \in 1..Len(parts) : i = 1 /\ requiredPart = hp[parts[i]].name

\* lines 100-104
AlreadyPresent(hp, parts, requiredPart) ==
    \E i \in 1..Len(parts) : requiredPart \in Range(names(hp[parts[i]]))

\* mutant: the part loaded for a required name is not put on the worklist
RECURSIVE LoadRequiredNoWorklist(_, _, _, _)
LoadRequiredNoWorklist(st, requires, resp, j) ==
    IF j > Len(requires) THEN st
    ELSE IF AlreadyPresent(st.heap, st.all_parts, requires[j])
         THEN LoadRequiredNoWorklist(st, requires, resp, j + 1)
         ELSE LoadRequiredNoWorklist(
                  load_plugin(st, requires[j], requires[j], <<>>, resp[j]),
                  requires, resp, j + 1)

\* lines 99-106: the loop over the requires of one part of the worklist;
\* resp[j] is the configuration the loader gives the part loaded for entry j
RECURSIVE LoadRequired(_, _, _, _)
LoadRequired(st, requires, resp, j) ==
    IF j > Len(requires) THEN st
    ELSE IF AlreadyPresent(st.heap, st.all_parts, requires[j])
         THEN LoadRequired(st, requires, resp, j + 1)
         ELSE LET ld == load_plugin(st, requires[j], requires[j], <<>>, resp[j])
              IN  LoadRequired([ld EXCEPT !.newParts = Append(@, Len(ld.heap))],
                               requires, resp, j + 1)

\* mutant: the after list is left out
DepNamesRequiresOnly(part, after) == part.config.requires

\* mutant: the after list comes first
DepNamesAfterFirst(part, after) ==
    Get(after, part.name, <<>>) \o part.config.requires

\* line 110
DepNames(part, after) ==
    part.config.requires \o Get(after, names(part)[1], <<>>)

\* lines 113-117: the first part of that name, 0 when there is none
Find(hp, parts, dep) ==
    IF \E i \in 1..Len(parts) : dep \in Range(names(hp[parts[i]]))
    THEN parts[CHOOSE i \in 1..Len(parts) :
                 /\ dep \in Range(names(hp[parts[i]]))
                 /\ \A k \in 1..(i - 1) : dep \notin Range(names(hp[parts[k]]))]
    ELSE 0

\* lines 109-120: the deps of every part in turn, up to the first name that
\* is not found (sys.exit(1))
RECURSIVE GatherDeps(_, _, _, _)
GatherDeps(hp, parts, after, i) ==
    IF i > Len(parts) THEN [heap |-> hp, exit |-> FALSE]
    ELSE LET part == parts[i]
             depNames == DepNames(hp[part], after)
             missing == { j \in 1..Len(depNames) : Find(hp, parts, depNames[j]) = 0 }
             n == IF missing = {} THEN Len(depNames)
                  ELSE (CHOOSE j \in missing : \A k \in missing : j <= k) - 1
             found == [j \in 1..n |-> Find(hp, parts, depNames[j])]
             hp2 == [hp EXCEPT ![part].deps = @ \o found]
         IN  IF missing = {} THEN GatherDeps(hp2, parts, after, i + 1)
             ELSE [heap |-> hp2, exit |-> TRUE]

\* mutant: a part's own deps are not looked at
MentionedByOther(hp, parts, part) ==
    \E i \in 1..Len(parts) : parts[i] # part /\ part \in Range(hp[parts[i]].deps)

\* lines 131-135
Mentioned(hp, parts, part) ==
    \E i \in 1..Len(parts) : part \in Range(hp[parts[i]].deps)

\* lines 129-138: the first part no part of all_parts mentions, 0 for None
TopPart(hp, parts) ==
    IF \E i \in 1..Len(parts) : ~Mentioned(hp, parts, parts[i])
    THEN parts[CHOOSE i \in 1..Len(parts) :
                 /\ ~Mentioned(hp, parts, parts[i])
                 /\ \A k \in 1..(i - 1) : Mentioned(hp, parts, parts[k])]
    ELSE 0

\* mutant: the part is put at the end
PutSortedLast(top_part, sorted) == sorted \o <<top_part>>

\* mutant: the parts sorted so far are dropped
PutSortedAlone(top_part, sorted) == <<top_part>>

\* line 141
PutSorted(top_part, sorted) == <<top_part>> \o sorted

\* lines 153-163, 174: the strings of one dependency's block, each a pair of
\* the variable it sets and the root it is formatted with
installdir(part) == <<"installdir", part>>
runtime_env(root) == << <<"PATH", root>>, <<"LD_LIBRARY_PATH", root>> >>
build_env(root) == << <<"CFLAGS", root>>, <<"LDFLAGS", root>> >>
part_env(part, root) == << <<"env", root>> >>

\* mutant: the recursive call is left out
build_env_for_deps(hp, part) ==
    LET deps == hp[part].deps
        RECURSIVE Loop(_)
        Loop(j) ==
            IF j > Len(deps) THEN <<>>
            ELSE LET dep == deps[j]
                     root == installdir(dep)
                 IN  runtime_env(root) \o build_env(root) \o part_env(dep, root)
                     \o Loop(j + 1)
    IN  Loop(1)

\* lines 165-177
RECURSIVE build_env_for_part(_, _)
build_env_for_part(hp, part) ==
    LET deps == hp[part].deps
        RECURSIVE Loop(_)
        Loop(j) ==
            IF j > Len(deps) THEN <<>>
            ELSE LET dep == deps[j]
                     root == installdir(dep)
                 IN  runtime_env(root) \o build_env(root) \o part_env(dep, root)
                     \o build_env_for_part(hp, dep) \o Loop(j + 1)
    IN  Loop(1)

\* ------------------------------------------------------------ actions
Init ==
    /\ pc = "load"
    /\ data_parts = <<>>
    /\ heap = <<>>
    /\ all_parts = <<>>
    /\ afterRequests = <<>>
    /\ newParts = <<>>
    /\ sorted_parts = <<>>
    /\ iters = 0
    /\ env = <<>>
    /\ envPart = 0

\* lines 79-92: one pass of the loop over the declared parts
LoadDeclared ==
    /\ pc = "load"
    /\ Len(data_parts) < NumNames
    /\ LET nReq == NReq
           nAfter == NAfter
           nKeys == NKeys
       IN \E entry \in Entries, requires \in ReqLists :
            LET part_name == Len(data_parts) + 1
                plugin_name == Get(entry, "plugin", part_name)
                st == load_plugin([heap |-> heap, all_parts |-> all_parts],
                                  part_name, plugin_name, StripKeys(entry), requires)
            IN  /\ InputOK(nReq + Len(requires), nAfter + EntryAfter(entry),
                           nKeys + EntryKeys(entry))
                /\ data_parts' = Append(data_parts, entry)
                /\ afterRequests' =
                     IF "after" \in DOMAIN entry
                     THEN afterRequests @@ (part_name :> entry["after"])
                     ELSE afterRequests
                /\ heap' = st.heap
                /\ all_parts' = st.all_parts
    /\ UNCHANGED <<pc, newParts, sorted_parts, iters, env, envPart>>

\* line 95: the loop over the declared parts is over
CopyNewParts ==
    /\ pc = "load"
    /\ pc' = "autoload"
    /\ newParts' = all_parts
    /\ UNCHANGED <<data_parts, heap, all_parts, afterRequests,
                   sorted_parts, iters, env, envPart>>

\* lines 96-106: one pass of the worklist loop
AutoLoad ==
    /\ pc = "autoload"
    /\ newParts # <<>>
    /\ LET part == Head(newParts)
           requires == heap[part].config.requires
           nReq == NReq
           nAfter == NAfter
           nKeys == NKeys
           room == Room(nReq, nAfter, nKeys)
           lists == SeqsUpTo(Names, IF room < MaxRequires THEN room ELSE MaxRequires)
       IN \E resp \in [1..Len(requires) -> lists] :
            LET st == LoadRequired([heap |-> heap, all_parts |-> all_parts,
                                    newParts |-> Tail(newParts)], requires, resp, 1)
                loaded == { st.heap[i].name : i \in (Len(heap) + 1)..Len(st.heap) }
            IN  \* entries that load nothing draw nothing
                /\ \A j \in 1..Len(requires) :
                     (requires[j] \notin loaded
                      \/ \E k \in 1..(j - 1) : requires[k] = requires[j])
                     => resp[j] = <<>>
                /\ InputOK(nReq + SumOver([j \in 1..Len(requires) |-> Len(resp[j])],
                                          1..Len(requires)), nAfter, nKeys)
                /\ heap' = st.heap
                /\ all_parts' = st.all_parts
                /\ newParts' = st.newParts
    /\ UNCHANGED <<pc, data_parts, afterRequests, sorted_parts, iters, env, envPart>>

\* lines 109-122: the worklist is empty; attach the edges, then either
\* sys.exit(1) or the call of _sort_parts
AttachEdges ==
    /\ pc = "autoload"
    /\ newParts = <<>>
    /\ LET r == GatherDeps(heap, all_parts, afterRequests, 1)
       IN  /\ heap' = r.heap
           /\ pc' = IF r.exit THEN "exit" ELSE "sort"
    /\ UNCHANGED <<data_parts, all_parts, afterRequests, newParts,
                   sorted_parts, iters, env, envPart>>

\* lines 128-142: one outer iteration of _sort_parts
SortIter ==
    /\ pc = "sort"
    /\ all_parts # <<>>
    /\ iters' = iters + 1
    /\ LET top_part == TopPart(heap, all_parts)
       IN  IF top_part = 0
           THEN /\ pc' = "error"
                /\ UNCHANGED <<sorted_parts, all_parts>>
           ELSE /\ sorted_parts' = PutSorted(top_part, sorted_parts)
                /\ all_parts' = Remove(all_parts, top_part)
                /\ pc' = pc
    /\ UNCHANGED <<data_parts, heap, afterRequests, newParts, env, envPart>>

\* lines 144, 122: _sort_parts returns, all_parts becomes its result
SortReturn ==
    /\ pc = "sort"
    /\ all_parts = <<>>
    /\ all_parts' = sorted_parts
    /\ pc' = "done"
    /\ UNCHANGED <<data_parts, heap, afterRequests, newParts, sorted_parts,
                   iters, env, envPart>>

\* lines 165-177: a caller asks for the build environment of a part
BuildEnvForPart ==
    /\ pc = "done"
    /\ \E part \in Range(all_parts) :
         /\ env' = build_env_for_part(heap, part)
         /\ envPart' = part
    /\ UNCHANGED <<pc, data_parts, heap, all_parts, afterRequests, newParts,
                   sorted_parts, iters>>

Next ==
    \/ LoadDeclared
    \/ CopyNewParts
    \/ AutoLoad
    \/ AttachEdges
    \/ SortIter
    \/ SortReturn
    \/ BuildEnvForPart

Spec == Init /\ [][Next]_vars

\* ------------------------------------------------------------ the graph
Parts == 1..Len(heap)
Declared == 1..Len(data_parts)
AutoLoaded == Parts \ Declared
NamesOf(s) == [i \in 1..Len(s) |-> heap[s[i]].name]
DepsOf(p) == Range(heap[p].deps)
Loaded(n) == \E p \in Parts : heap[p].name = n
Attached == pc \in {"sort", "done", "error"}

AfterNames == UNION { Range(afterRequests[n]) : n \in DOMAIN afterRequests }
RequiredNames == UNION { Range(heap[p].config.requires) : p \in Parts }

RECURSIVE ReachFrom(_)
ReachFrom(S) ==
    LET T == S \cup UNION { DepsOf(q) : q \in S }
    IN  IF T = S THEN S ELSE ReachFrom(T)

HasCycle == \E p \in Parts : p \in ReachFrom(DepsOf(p))

\* ------------------------------------------------------------ C1
ChainInput ==
    /\ Len(heap) = 3
    /\ heap[1].config.requires = <<2>>
    /\ heap[2].config.requires = <<3>>
    /\ heap[3].config.requires = <<>>
    /\ DOMAIN afterRequests = {}

\* C1: when construction completes, every dependency of a part stands
\* strictly before it in all_parts; parts 1 requires [2], 2 requires [3], 3
\* sort to [3, 2, 1].
C1_DepsBeforeDependents ==
    pc = "done" =>
        /\ \A i \in 1..Len(all_parts) :
             \A d \in DepsOf(all_parts[i]) :
                \E j \in 1..(i - 1) : all_parts[j] = d
        /\ ChainInput => NamesOf(all_parts) = <<3, 2, 1>>

C1_Witness ==
    /\ pc = "done"
    /\ ChainInput
    /\ NamesOf(all_parts) = <<3, 2, 1>>

\* ------------------------------------------------------------ C2
\* the parts that the names in the requires and after lists of p stand for
NamedDeps(p) ==
    { q \in Parts : heap[q].name \in Range(DepNames(heap[p], afterRequests)) }

RECURSIVE NamedReach(_)
NamedReach(S) ==
    LET T == S \cup UNION { NamedDeps(q) : q \in S }
    IN  IF T = S THEN S ELSE NamedReach(T)

RequiresItself ==
    \E p \in Parts : heap[p].name \in Range(heap[p].config.requires)
NamedCycle == \E p \in Parts : p \in NamedReach(NamedDeps(p))

\* C2 as stated: a construction with a part that requires itself, or with a
\* cycle among the parts' dependencies, ends in the circular-dependency
\* error of _sort_parts, and the error is raised only when deps has a cycle.
C2_AsStated ==
    /\ (pc \in {"done", "exit", "error"} /\ (RequiresItself \/ NamedCycle))
         => pc = "error"
    /\ pc = "error" => HasCycle

\* C2: when every name in the after lists is that of a loaded part, a
\* construction with a part that requires itself, or with a cycle among the
\* parts' dependencies, ends in the circular-dependency error of _sort_parts
\* and returns no sorted sequence; the error is raised only when the
\* attached deps contain a cycle. (With an after name that is not loaded the
\* construction has exited on the missing part before the sort.)
C2_CycleIffError ==
    /\ (pc \in {"done", "error"} /\ (RequiresItself \/ NamedCycle)) => pc = "error"
    /\ pc = "error" => (HasCycle /\ NamedCycle)
    /\ pc = "exit" => \E n \in AfterNames : ~Loaded(n)

C2_Witness ==
    /\ pc = "error"
    /\ \E p, q \in Parts : p # q /\ q \in DepsOf(p) /\ p \in DepsOf(q)

\* ------------------------------------------------------------ C3
\* C3: once the worklist loop is over, every name in the requires of a
\* loaded part is the name of a loaded part; a part loaded for a required
\* name was not declared, has that name as its plugin and no properties.
C3_RequiresLoaded ==
    /\ (pc \notin {"load", "autoload"} \/ (pc = "autoload" /\ newParts = <<>>)) =>
         \A p \in Parts : \A r \in Range(heap[p].config.requires) : Loaded(r)
    /\ \A p \in AutoLoaded :
         /\ heap[p].name \notin Declared
         /\ heap[p].plugin = heap[p].name
         /\ DOMAIN heap[p].properties = {}
         /\ \E q \in Parts : heap[p].name \in Range(heap[q].config.requires)

C3_Witness ==
    /\ pc = "done"
    /\ \E p, q \in AutoLoaded :
         /\ p # q
         /\ heap[q].name \in Range(heap[p].config.requires)
         /\ \A d \in Declared : heap[q].name \notin Range(heap[d].config.requires)

\* ------------------------------------------------------------ C4
\* C4: a name that occurs only in after lists is never loaded, and when an
\* after list names a part that is not loaded, the edge attachment exits
\* before the sort has started.
C4_AfterNeverLoads ==
    /\ \A n \in AfterNames :
         (n \notin Declared /\ n \notin RequiredNames) => ~Loaded(n)
    /\ Attached => \A n \in AfterNames : Loaded(n)
    /\ pc = "exit" =>
         /\ \E n \in AfterNames : ~Loaded(n)
         /\ sorted_parts = <<>>
         /\ iters = 0

C4_Witness ==
    /\ pc = "exit"
    /\ \E n \in AfterNames : ~Loaded(n)
    /\ Len(heap) >= 2

\* ------------------------------------------------------------ C5
\* C5 as stated: the properties handed to the loader for a declared part hold
\* none of the keys plugin, after, requires, and every other key of the
\* entry unchanged.
C5_AsStated ==
    \A i \in Declared :
        LET e == data_parts[i]
            props == heap[i].properties
        IN  /\ DOMAIN props \cap {"plugin", "after", "requires"} = {}
            /\ \A k \in DOMAIN e \ {"plugin", "after", "requires"} :
                 k \in DOMAIN props /\ props[k] = e[k]

\* C5: the properties handed to the loader for a declared part hold neither
\* the plugin key nor the after key of the entry, and every other key of the
\* entry, a requires key too, with its value unchanged.
C5_PluginAfterStripped ==
    \A i \in Declared :
        LET e == data_parts[i]
            props == heap[i].properties
        IN  /\ "plugin" \notin DOMAIN props
            /\ "after" \notin DOMAIN props
            /\ DOMAIN props \subseteq DOMAIN e
            /\ \A k \in DOMAIN e \ {"plugin", "after"} :
                 k \in DOMAIN props /\ props[k] = e[k]

C5_Witness ==
    \E i \in Declared :
        /\ DOMAIN data_parts[i] = {"plugin", "after", "requires"}
        /\ DOMAIN heap[i].properties = {"requires"}
        /\ heap[i].plugin = OtherPlugin

\* ------------------------------------------------------------ C6
Block(d) ==
    runtime_env(installdir(d)) \o build_env(installdir(d))
    \o part_env(d, installdir(d))
BlockLen == Len(Block(1))

\* where the block of part d starts in env
Starts(d) ==
    { i \in 1..Len(env) :
        i + BlockLen - 1 <= Len(env) /\ SubSeq(env, i, i + BlockLen - 1) = Block(d) }

\* the dependency paths from p to d as sequences of parts
RECURSIVE Paths(_, _)
Paths(p, d) ==
    UNION { (IF q = d THEN { <<p, d>> } ELSE {})
            \cup { <<p>> \o path : path \in Paths(q, d) } : q \in DepsOf(p) }

\* the dependency paths from p to d, an entry repeated in a deps list
\* counted once for each time it occurs
RECURSIVE NumPaths(_, _)
NumPaths(p, d) ==
    LET deps == heap[p].deps
    IN  SumOver([j \in 1..Len(deps) |->
                    (IF deps[j] = d THEN 1 ELSE 0) + NumPaths(deps[j], d)],
                1..Len(deps))

FirstDepFollows ==
    \A d \in Parts : \A i \in Starts(d) :
        heap[d].deps # <<>> =>
            /\ i + BlockLen <= Len(env)
            /\ env[i + BlockLen] = Head(Block(Head(heap[d].deps)))

\* C6 as stated: the block of a part d occurs in build_env_for_part(p) as
\* many times as there are distinct dependency paths from p to d, each block
\* followed by the blocks of that part's own dependencies.
C6_AsStated ==
    envPart # 0 =>
        /\ \A d \in Parts : Cardinality(Starts(d)) = Cardinality(Paths(envPart, d))
        /\ FirstDepFollows

\* C6: build_env_for_part does not deduplicate. The block of a part d occurs
\* in build_env_for_part(p) once for every dependency path from p to d,
\* where a part that a deps list holds k times counts as k edges; env holds
\* nothing else, and each block is followed at once by the block of that
\* part's first dependency.
C6_BlockPerPath ==
    envPart # 0 =>
        /\ \A d \in Parts : Cardinality(Starts(d)) = NumPaths(envPart, d)
        /\ Len(env) = BlockLen * SumOver([d \in Parts |-> NumPaths(envPart, d)], Parts)
        /\ FirstDepFollows

\* a part with two direct dependencies that share a third part as their
\* dependency: the shared part's block is there twice
C6_Witness ==
    /\ envPart # 0
    /\ \E b, c, d \in Parts :
         /\ Cardinality({envPart, b, c, d}) = 4
         /\ heap[envPart].deps = <<b, c>>
         /\ heap[b].deps = <<d>>
         /\ heap[c].deps = <<d>>
         /\ Cardinality(Starts(d)) = 2

\* ------------------------------------------------------------ C7
UniqueNames ==
    /\ \A i, j \in 1..Len(all_parts) :
         heap[all_parts[i]].name = heap[all_parts[j]].name => i = j
    /\ \A p, q \in Parts : heap[p].name = heap[q].name => p = q

\* C7 as stated: no two parts share a name and no part's deps holds the
\* part itself.
C7_AsStated ==
    /\ UniqueNames
    /\ \A p \in Parts : p \notin DepsOf(p)

\* C7: no two parts share a name, whatever the requires lists repeat; and
\* no part's deps holds the part itself once construction has completed (a
\* part that requires itself has itself in deps until the sort rejects it).
C7_UniqueNames ==
    /\ UniqueNames
    /\ pc = "done" => \A p \in Parts : p \notin DepsOf(p)

\* a requires list that repeats the name of a part it makes load, and a
\* name required by two parts
C7_Witness ==
    /\ pc = "done"
    /\ \E p \in Parts, a \in AutoLoaded :
         heap[p].config.requires = <<heap[a].name, heap[a].name>>

\* ------------------------------------------------------------ C8
NoRepeat(s) == \A i, j \in 1..Len(s) : s[i] = s[j] => i = j

\* C8 as stated: the deps of a part are the parts named by requires, then
\* those named by after, each part once.
C8_AsStated ==
    Attached =>
        \A p \in Parts :
            LET requires == heap[p].config.requires
                after == Get(afterRequests, heap[p].name, <<>>)
                deps == NamesOf(heap[p].deps)
            IN  /\ Range(deps) = Range(requires) \cup Range(after)
                /\ NoRepeat(deps)
                /\ \A i, j \in 1..Len(deps) :
                     (deps[i] \in Range(requires) /\ deps[j] \notin Range(requires))
                     => i < j

\* C8: the deps of a part are the parts named by requires followed by the
\* parts named by after, entry for entry: a name that occurs twice, in one
\* list or in both, gives two entries of deps.
C8_DepsConcatenated ==
    Attached =>
        \A p \in Parts :
            LET requires == heap[p].config.requires
                after == Get(afterRequests, heap[p].name, <<>>)
                deps == NamesOf(heap[p].deps)
            IN  /\ Len(deps) = Len(requires) + Len(after)
                /\ \A j \in 1..Len(requires) : deps[j] = requires[j]
                /\ \A j \in 1..Len(after) : deps[Len(requires) + j] = after[j]

C8_Witness ==
    /\ Attached
    /\ \E p \in Parts, q \in Parts :
         /\ p # q
         /\ heap[p].config.requires = <<heap[q].name>>
         /\ Get(afterRequests, heap[p].name, <<>>) = <<heap[q].name>>
         /\ heap[p].deps = <<q, q>>

\* ------------------------------------------------------------ C9
\* C9: every outer iteration of _sort_parts takes exactly one part out of
\* the remaining ones or raises the error, the iterations made and the parts
\* remaining add up to the n parts loaded, and the sort ends with a result
\* or the error within n iterations.
C9_SortTerminates ==
    /\ [](iters <= Len(heap))
    /\ [](pc = "sort" => iters + Len(all_parts) = Len(heap))
    /\ [][(pc = "sort" /\ iters' # iters) =>
            \/ pc' = "error"
            \/ /\ Len(all_parts') = Len(all_parts) - 1
               /\ Len(sorted_parts') = Len(sorted_parts) + 1]_vars
    /\ [][(pc = "sort" /\ pc' = "sort") => iters' = iters + 1]_vars
    /\ [](pc = "sort" => <>(pc \in {"done", "error"}))

C9_Witness ==
    /\ pc = "done"
    /\ iters = Len(heap)
    /\ iters = NumNames

\* ------------------------------------------------------------ C10
\* C10: when _sort_parts returns, all_parts holds every loaded part exactly
\* once, and no step of the sort changes a part's deps.
C10_SortPermutes ==
    /\ [](pc = "done" =>
            /\ Len(all_parts) = Len(heap)
            /\ Range(all_parts) = Parts)
    /\ [][pc = "sort" => \A p \in Parts : heap'[p].deps = heap[p].deps]_vars

C10_Witness ==
    /\ pc = "done"
    /\ Declared # {}
    /\ AutoLoaded # {}
    /\ \E p \in Parts : Len(heap[p].deps) = 2

\* _sort_parts is a plain loop: once called, it keeps taking steps
FairSpec == Spec /\ WF_vars(SortIter) /\ WF_vars(SortReturn)
====
